---- MODULE Spec2Model ----
(***************************************************************************)
(* Account service: the Account entity of service/models.py (serialize,    *)
(* deserialize), the persistence methods of PersistentBase (create,        *)
(* update, delete, all, find) over the accounts table, and the HTTP route  *)
(* layer of service/routes.py as exercised by tests/test_routes.py.        *)
(*                                                                         *)
(* Python values that travel in a JSON document are records [t, v]: t is   *)
(* the JSON type and v the text of the value as a sequence of characters,  *)
(* so that date parsing and formatting work on the characters.             *)
(***************************************************************************)
EXTENDS Integers, Sequences, FiniteSets, TLC

VARIABLES
    store,      \* the accounts table: committed rows, id -> row
    seq,        \* last value handed out by the primary-key sequence
    today,      \* the calendar date date.today() returns
    req,        \* the last HTTP request handled
    resp,       \* its response: status, body, and the entity the handler held
    minted,     \* history: every id a create has ever returned
    delTwice,   \* history: ids that received two DELETE requests in a row
    delGone,    \* history: those of delTwice no create has returned since
    acct,       \* entity level: the in-memory Account under test
    call,       \* entity level: the last deserialize call (data, date of call)
    out,        \* entity level: what that call raised or returned
    ser         \* entity level: the last serialize() result of acct

vars == <<store, seq, today, req, resp, minted, delTwice, delGone,
          acct, call, out, ser>>

----------------------------------------------------------------------------
(* Bounds of the model *)

MaxSeq == 2          \* ids the primary-key sequence may hand out
MaxTicks == 1        \* midnights that may pass

----------------------------------------------------------------------------
(* JSON values *)

Str(s) == [t |-> "str", v |-> s]
Num(s) == [t |-> "int", v |-> s]
Null == [t |-> "null", v |-> <<>>]

\* Python truth value of a JSON value: None, "" and 0 are falsy
Truthy(x) ==
    CASE x.t = "str" -> x.v # <<>>
      [] x.t = "int" -> x.v # <<"0">>
      [] OTHER -> FALSE

Digits == <<"0", "1", "2", "3", "4", "5", "6", "7", "8", "9">>

IsDigit(c) == \E i \in 1..10 : Digits[i] = c

DigitVal(c) == (CHOOSE i \in 1..10 : Digits[i] = c) - 1

\* the decimal text of n, at least width characters, zero padded
RECURSIVE Pad(_, _)
Pad(n, width) ==
    IF width <= 1 /\ n < 10 THEN <<Digits[n + 1]>>
    ELSE Append(Pad(n \div 10, width - 1), Digits[(n % 10) + 1])

\* the JSON value of an integer primary key; None stays null
NoId == 0
IdValue(id) == IF id = NoId THEN Null ELSE Num(Pad(id, 1))

----------------------------------------------------------------------------
(* datetime.date *)

NoDate == [y |-> 0, m |-> 0, d |-> 0]

IsLeap(y) == (y % 4 = 0) /\ ((y % 100 # 0) \/ (y % 400 = 0))

DaysInMonth(y, m) ==
    IF m = 2 THEN (IF IsLeap(y) THEN 29 ELSE 28)
    ELSE IF m \in {4, 6, 9, 11} THEN 30 ELSE 31

\* date.fromisoformat on the extended form YYYY-MM-DD, the one form every
\* Python 3 release accepts; TRUE when the text parses to a calendar date
IsIsoDate(s) ==
    /\ Len(s) = 10
    /\ s[5] = "-" /\ s[8] = "-"
    /\ \A i \in {1, 2, 3, 4, 6, 7, 9, 10} : IsDigit(s[i])
    /\ LET y == DigitVal(s[1]) * 1000 + DigitVal(s[2]) * 100
                + DigitVal(s[3]) * 10 + DigitVal(s[4])
           m == DigitVal(s[6]) * 10 + DigitVal(s[7])
           d == DigitVal(s[9]) * 10 + DigitVal(s[10])
       IN  y >= 1 /\ m \in 1..12 /\ d \in 1..DaysInMonth(y, m)

fromisoformat(s) ==
    [y |-> DigitVal(s[1]) * 1000 + DigitVal(s[2]) * 100
            + DigitVal(s[3]) * 10 + DigitVal(s[4]),
     m |-> DigitVal(s[6]) * 10 + DigitVal(s[7]),
     d |-> DigitVal(s[9]) * 10 + DigitVal(s[10])]

\* date.isoformat: %04d-%02d-%02d
isoformat(dt) == Pad(dt.y, 4) \o <<"-">> \o Pad(dt.m, 2) \o <<"-">> \o Pad(dt.d, 2)

\* the day after dt
NextDay(dt) ==
    IF dt.d < DaysInMonth(dt.y, dt.m) THEN [dt EXCEPT !.d = dt.d + 1]
    ELSE IF dt.m < 12 THEN [dt EXCEPT !.m = dt.m + 1, !.d = 1]
    ELSE [y |-> dt.y + 1, m |-> 1, d |-> 1]

----------------------------------------------------------------------------
(* The Account entity *)

Keys == {"id", "name", "email", "address", "phone_number", "date_joined"}

\* Account(): a new entity, every column unset
NewAccount ==
    [id |-> NoId, name |-> Null, email |-> Null, address |-> Null,
     phone_number |-> Null, date_joined |-> NoDate]

\* a parsed JSON body: an object (m maps its keys), or null, or a list
Obj(m) == [t |-> "obj", m |-> m]
NoKeys == [k \in {} |-> Null]
NullBody == [t |-> "null", m |-> NoKeys]
ListBody == [t |-> "list", m |-> NoKeys]

\* dict.get(key): None when the key is absent
Get(m, key) == IF key \in DOMAIN m THEN m[key] ELSE Null

\* Account.serialize
serialize(self) ==
    [id |-> IdValue(self.id),
     name |-> self.name,
     email |-> self.email,
     address |-> self.address,
     phone_number |-> self.phone_number,
     date_joined |-> IF self.date_joined # NoDate
                     THEN Str(isoformat(self.date_joined))
                     ELSE Str(<<"N", "o", "n", "e">>)]

NoError == [exc |-> "none", cause |-> "none", arg |-> "none"]

\* raise DataValidationError(...) from error
DataValidationError(cause, arg) ==
    [exc |-> "DataValidationError", cause |-> cause, arg |-> arg]

\* an exception that no except clause catches leaves the call as it is
Uncaught(cause, arg) == [exc |-> cause, cause |-> cause, arg |-> arg]

\* email read with data.get instead of data["email"]
required_short == <<"name", "address">>

\* the keys read with data[key], in the order of the assignments
required == <<"name", "email", "address">>

\* self.name = data["name"]; ... : the assignments up to the first absent
\* key, which raises KeyError(key)
RECURSIVE copy_required(_, _, _)
copy_required(self, m, i) ==
    IF i > Len(required) THEN [self |-> self, raised |-> NoError]
    ELSE IF required[i] \notin DOMAIN m
    THEN [self |-> self, raised |-> Uncaught("KeyError", required[i])]
    ELSE copy_required([self EXCEPT ![required[i]] = m[required[i]]], m, i + 1)

\* the date_joined branch: fromisoformat raises TypeError on a value that is
\* no str and ValueError on a str that is no ISO date
parse_date_joined(self, date_joined, now) ==
    IF Truthy(date_joined)
    THEN IF date_joined.t # "str"
         THEN [self |-> self,
               raised |-> Uncaught("TypeError", "fromisoformat: argument must be str")]
         ELSE IF ~IsIsoDate(date_joined.v)
         THEN [self |-> self,
               raised |-> Uncaught("ValueError", "Invalid isoformat string")]
         ELSE [self |-> [self EXCEPT !.date_joined = fromisoformat(date_joined.v)],
               raised |-> NoError]
    ELSE [self |-> [self EXCEPT !.date_joined = now], raised |-> NoError]

\* the body of the try block
try_block(self, data, now) ==
    IF data.t # "obj"
    THEN [self |-> self, raised |-> Uncaught("TypeError", "not subscriptable")]
    ELSE LET r == copy_required(self, data.m, 1) IN
         IF r.raised # NoError THEN r
         ELSE parse_date_joined(
                [r.self EXCEPT !.phone_number = Get(data.m, "phone_number")],
                Get(data.m, "date_joined"), now)

\* a handler that passes over a KeyError instead of raising
swallow_KeyError(raised) ==
    IF raised.cause = "KeyError" THEN NoError
    ELSE IF raised.cause = "TypeError"
    THEN DataValidationError(raised.cause, raised.arg)
    ELSE raised

\* the except clauses: KeyError and TypeError become DataValidationError,
\* anything else propagates
except_clauses(raised) ==
    IF raised.cause \in {"KeyError", "TypeError"}
    THEN DataValidationError(raised.cause, raised.arg)
    ELSE raised

\* Account.deserialize(data) on the day now: the entity as the call leaves
\* it, and the exception it raises (NoError when it returns self)
deserialize(self, data, now) ==
    LET r == try_block(self, data, now)
    IN  [self |-> r.self, err |-> except_clauses(r.raised)]

----------------------------------------------------------------------------
(* PersistentBase over the accounts table.  A row is an Account record     *)
(* whose id is set; db is the pair of the committed rows and the           *)
(* primary-key sequence.                                                    *)

\* find's result when no row has the id (Python None)
NoAccount == NewAccount

\* the NOT NULL columns of the table schema
NotNullOk(self) ==
    /\ self.name # Null
    /\ self.email # Null
    /\ self.address # Null
    /\ self.date_joined # NoDate

\* PersistentBase.create: the id is unset, the row inserted under the next
\* value of the sequence, and committed; a NOT NULL violation aborts the
\* insert (the sequence value is spent all the same)
create(db, self) ==
    LET unset == [self EXCEPT !.id = NoId]
        key == db.seq + 1
        row == [unset EXCEPT !.id = key]
    IN  IF NotNullOk(row)
        THEN [db |-> [store |-> [i \in DOMAIN db.store \cup {key} |->
                                    IF i = key THEN row ELSE db.store[i]],
                      seq |-> key],
              self |-> row, err |-> "none"]
        ELSE [db |-> [db EXCEPT !.seq = key],
              self |-> unset, err |-> "IntegrityError"]

\* a commit that writes nothing
update_without_commit(db, self) == [db |-> db, err |-> "none"]

\* PersistentBase.update: commits the fields of the attached entity to its row
update(db, self) ==
    IF self.id \in DOMAIN db.store /\ NotNullOk(self)
    THEN [db |-> [db EXCEPT !.store[self.id] = self], err |-> "none"]
    ELSE [db |-> db,
          err |-> IF self.id \in DOMAIN db.store
                  THEN "IntegrityError" ELSE "none"]

\* a delete that leaves the row
delete_without_removal(db, self) == db

\* PersistentBase.delete: removes the entity's row and commits
delete(db, self) ==
    [db EXCEPT !.store = [i \in DOMAIN db.store \ {self.id} |-> db.store[i]]]

\* the orders in which a query may return the rows
Orders(db) ==
    LET n == Cardinality(DOMAIN db.store)
    IN  {o \in [1..n -> DOMAIN db.store] :
            \A i, j \in 1..n : i # j => o[i] # o[j]}

\* a query cut to its first row
all_first_only(db, order) == [i \in DOMAIN order \cap {1} |-> db.store[order[i]]]

\* PersistentBase.all: every row, in the order the storage returns them
all(db, order) == [i \in DOMAIN order |-> db.store[order[i]]]

\* a lookup that falls back to the oldest row
find_or_first(db, by_id) ==
    IF by_id \in DOMAIN db.store THEN db.store[by_id]
    ELSE IF DOMAIN db.store # {}
    THEN db.store[CHOOSE i \in DOMAIN db.store : \A j \in DOMAIN db.store : i <= j]
    ELSE NoAccount

\* PersistentBase.find: the row with the id, or None
find(db, by_id) ==
    IF by_id \in DOMAIN db.store THEN db.store[by_id] ELSE NoAccount

----------------------------------------------------------------------------
(* The route layer: one operator per endpoint, giving the database after   *)
(* the request, the response, and the entity the handler held when it      *)
(* finished.  The session is scoped to the request: what a handler did     *)
(* not commit is discarded when the request ends.                          *)

JSON == "application/json"

\* a check that lets every media type through
accept_any_content_type(ctype) == TRUE

check_content_type(ctype) == ctype = JSON

Response(db, status, body, held, error) ==
    [db |-> db, status |-> status, body |-> body, held |-> held, error |-> error]

\* POST /accounts
create_accounts(db, ctype, body, now) ==
    IF ~check_content_type(ctype)
    THEN Response(db, 415, <<>>, NoAccount, NoError)
    ELSE LET r == deserialize(NewAccount, body, now) IN
         IF r.err.exc = "DataValidationError"
         THEN Response(db, 400, <<>>, r.self, r.err)
         ELSE IF r.err # NoError
         THEN Response(db, 500, <<>>, r.self, r.err)
         ELSE LET c == create(db, r.self) IN
              IF c.err # "none"
              THEN Response(c.db, 500, <<>>, c.self, Uncaught(c.err, "accounts"))
              ELSE Response(c.db, 201, <<serialize(c.self)>>, c.self, NoError)

\* GET /accounts
list_accounts(db, order) ==
    LET accounts == all(db, order)
    IN  Response(db, 200, [i \in DOMAIN accounts |-> serialize(accounts[i])],
                 NoAccount, NoError)

\* GET /accounts/{id}
get_accounts(db, id) ==
    LET account == find(db, id) IN
    IF account = NoAccount
    THEN Response(db, 404, <<>>, account, NoError)
    ELSE Response(db, 200, <<serialize(account)>>, account, NoError)

\* PUT /accounts/{id}
update_accounts(db, id, body, now) ==
    LET account == find(db, id) IN
    IF account = NoAccount
    THEN Response(db, 404, <<>>, account, NoError)
    ELSE LET r == deserialize(account, body, now) IN
         IF r.err.exc = "DataValidationError"
         THEN Response(db, 400, <<>>, r.self, r.err)
         ELSE IF r.err # NoError
         THEN Response(db, 500, <<>>, r.self, r.err)
         ELSE LET u == update(db, r.self) IN
              IF u.err # "none"
              THEN Response(u.db, 500, <<>>, r.self, Uncaught(u.err, "accounts"))
              ELSE Response(u.db, 200, <<serialize(r.self)>>, r.self, NoError)

\* DELETE /accounts/{id}
delete_accounts(db, id) ==
    LET account == find(db, id) IN
    IF account = NoAccount
    THEN Response(db, 204, <<>>, account, NoError)
    ELSE Response(delete(db, account), 204, <<>>, account, NoError)

----------------------------------------------------------------------------
(* Inputs *)

Absent == [t |-> "absent", v |-> <<>>]

\* the JSON object with the keys of f that are not Absent
MakeDoc(f) == Obj([k \in {x \in Keys : f[x] # Absent} |-> f[k]])

NameA == Str(<<"A", "n", "n">>)
NameB == Str(<<"B", "o">>)
Email1 == Str(<<"a", "@", "x">>)
Email2 == Str(<<"b", "@", "y">>)
Addr1 == Str(<<"1", " ", "S", "t">>)
Addr2 == Str(<<"2", " ", "R", "d">>)
Phone1 == Str(<<"5", "5", "5">>)
DateLeap == Str(<<"2", "0", "2", "4", "-", "0", "2", "-", "2", "9">>)
DateOld == Str(<<"1", "9", "9", "9", "-", "1", "2", "-", "0", "1">>)
DateBadDay == Str(<<"2", "0", "2", "3", "-", "0", "2", "-", "2", "9">>)
DateSlashes == Str(<<"0", "2", "/", "2", "9", "/", "2", "0", "2", "4">>)
DateEmpty == Str(<<>>)
DateNum == Num(<<"5">>)
DateZero == Num(<<"0">>)

FullBody ==
    MakeDoc([id |-> Num(<<"2">>), name |-> NameA, email |-> Email1,
             address |-> Addr1, phone_number |-> Phone1, date_joined |-> DateLeap])
MinimalBody ==
    MakeDoc([id |-> Absent, name |-> NameB, email |-> Email2,
             address |-> Addr2, phone_number |-> Absent, date_joined |-> Absent])
NoEmailBody ==
    MakeDoc([id |-> Absent, name |-> NameB, email |-> Absent,
             address |-> Addr2, phone_number |-> Absent, date_joined |-> Absent])
BadDateBody ==
    MakeDoc([id |-> Absent, name |-> NameB, email |-> Email2,
             address |-> Addr2, phone_number |-> Absent, date_joined |-> DateBadDay])
EmptyDateBody ==
    MakeDoc([id |-> Absent, name |-> NameB, email |-> Email2,
             address |-> Addr2, phone_number |-> Absent, date_joined |-> DateEmpty])
NumDateBody ==
    MakeDoc([id |-> Absent, name |-> NameB, email |-> Email2,
             address |-> Addr2, phone_number |-> Absent, date_joined |-> DateNum])
NullNameBody ==
    MakeDoc([id |-> Absent, name |-> Null, email |-> Email2,
             address |-> Addr2, phone_number |-> Absent, date_joined |-> Absent])
EmptyBody == Obj(NoKeys)

\* documents handed to Account.deserialize at the entity level
EntityBodies ==
    {MakeDoc([id |-> Absent, name |-> n, email |-> e, address |-> a,
              phone_number |-> Absent, date_joined |-> d]) :
        n \in {Absent, NameA, Null},
        e \in {Absent, Email1},
        a \in {Absent, Addr1},
        d \in {Absent, DateLeap, DateOld, DateBadDay, DateSlashes, DateEmpty,
               DateNum, DateZero, Null}}
    \cup {MakeDoc([id |-> Num(<<"2">>), name |-> NameB, email |-> Email2,
                   address |-> Addr2, phone_number |-> Phone1,
                   date_joined |-> d]) :
            d \in {Absent, DateLeap, DateBadDay, DateEmpty}}
    \cup {FullBody, NullBody, ListBody}

\* request bodies sent to the service
ServiceBodies ==
    {FullBody, MinimalBody, NoEmailBody, BadDateBody, EmptyDateBody,
     NumDateBody, NullNameBody, EmptyBody, NullBody}

ContentTypes == {JSON, "text/plain"}

\* ids a client may put in a path
PathIds == 1..MaxSeq

FirstDay == [y |-> 2024, m |-> 12, d |-> 31]

RECURSIVE DayAfter(_)
DayAfter(n) == IF n = 0 THEN FirstDay ELSE NextDay(DayAfter(n - 1))

----------------------------------------------------------------------------
(* The state machine *)

NoRequest == [verb |-> "none", id |-> NoId, ctype |-> JSON, body |-> NullBody]
NoResponse == [status |-> 0, body |-> <<>>, held |-> NoAccount, error |-> NoError]
NoCall == [op |-> "none", data |-> NullBody, now |-> NoDate]

Init ==
    /\ store = [i \in {} |-> NewAccount]
    /\ seq = 0
    /\ today = FirstDay
    /\ req = NoRequest
    /\ resp = NoResponse
    /\ minted = {}
    /\ delTwice = {}
    /\ delGone = {}
    /\ acct = NewAccount
    /\ call = NoCall
    /\ out = NoError
    /\ ser = <<>>

entityVars == <<acct, call, out, ser>>

Answer(r) ==
    /\ store' = r.db.store
    /\ seq' = r.db.seq
    /\ resp' = [status |-> r.status, body |-> r.body, held |-> r.held,
                error |-> r.error]

Db == [store |-> store, seq |-> seq]

\* POST /accounts, apart from the history of DELETEs
PostRequest(ctype, body) ==
    /\ seq < MaxSeq
    /\ LET r == create_accounts(Db, ctype, body, today) IN
        /\ Answer(r)
        /\ minted' = IF r.status = 201 THEN minted \cup {r.held.id} ELSE minted
    /\ req' = [verb |-> "POST", id |-> NoId, ctype |-> ctype, body |-> body]
    /\ UNCHANGED today
    /\ UNCHANGED entityVars

Post(ctype, body) ==
    /\ PostRequest(ctype, body)
    /\ UNCHANGED <<delTwice, delGone>>

List(order) ==
    /\ Answer(list_accounts(Db, order))
    /\ req' = [verb |-> "LIST", id |-> NoId, ctype |-> JSON, body |-> NullBody]
    /\ UNCHANGED <<today, minted, delTwice, delGone>>
    /\ UNCHANGED entityVars

Read(id) ==
    /\ Answer(get_accounts(Db, id))
    /\ req' = [verb |-> "GET", id |-> id, ctype |-> JSON, body |-> NullBody]
    /\ UNCHANGED <<today, minted, delTwice, delGone>>
    /\ UNCHANGED entityVars

Put(id, body) ==
    /\ Answer(update_accounts(Db, id, body, today))
    /\ req' = [verb |-> "PUT", id |-> id, ctype |-> JSON, body |-> body]
    /\ UNCHANGED <<today, minted, delTwice, delGone>>
    /\ UNCHANGED entityVars

\* DELETE /accounts/{id}, apart from the history of DELETEs
DeleteRequest(id) ==
    /\ Answer(delete_accounts(Db, id))
    /\ req' = [verb |-> "DELETE", id |-> id, ctype |-> JSON, body |-> NullBody]
    /\ UNCHANGED <<today, minted>>
    /\ UNCHANGED entityVars

Delete(id) ==
    /\ DeleteRequest(id)
    /\ UNCHANGED <<delTwice, delGone>>

\* midnight passes
Tick ==
    /\ today # DayAfter(MaxTicks)
    /\ today' = NextDay(today)
    /\ UNCHANGED <<store, seq, req, resp, minted, delTwice, delGone>>
    /\ UNCHANGED entityVars

Next ==
    \/ \E c \in ContentTypes, b \in ServiceBodies : Post(c, b)
    \/ \E o \in Orders(Db) : List(o)
    \/ \E i \in PathIds : Read(i)
    \/ \E i \in PathIds, b \in ServiceBodies : Put(i, b)
    \/ \E i \in PathIds : Delete(i)
    \/ Tick

Spec == Init /\ [][Next]_vars

----------------------------------------------------------------------------
(* The service with the history of DELETEs kept: which ids received two    *)
(* DELETE requests in a row, and which of those no create has returned     *)
(* since.                                                                  *)

WatchedBodies == {MinimalBody, NoEmailBody}

PostWatched(ctype, body) ==
    /\ PostRequest(ctype, body)
    /\ delGone' = delGone \ minted'
    /\ UNCHANGED delTwice

DeleteWatched(id) ==
    /\ DeleteRequest(id)
    /\ delTwice' = IF req.verb = "DELETE" /\ req.id = id
                   THEN delTwice \cup {id} ELSE delTwice
    /\ delGone' = IF req.verb = "DELETE" /\ req.id = id
                  THEN delGone \cup {id} ELSE delGone

NextDelete ==
    \/ \E c \in ContentTypes, b \in WatchedBodies : PostWatched(c, b)
    \/ \E o \in Orders(Db) : List(o)
    \/ \E i \in PathIds : Read(i)
    \/ \E i \in PathIds, b \in WatchedBodies : Put(i, b)
    \/ \E i \in PathIds : DeleteWatched(i)
    \/ Tick

SpecDelete == Init /\ [][NextDelete]_vars

----------------------------------------------------------------------------
(* The entity on its own: deserialize and serialize called on an Account   *)

serviceVars == <<store, seq, req, resp, minted, delTwice, delGone>>

New ==
    /\ acct' = NewAccount
    /\ call' = NoCall
    /\ out' = NoError
    /\ ser' = <<>>
    /\ UNCHANGED today
    /\ UNCHANGED serviceVars

Deserialize(data) ==
    /\ LET r == deserialize(acct, data, today) IN
        /\ acct' = r.self
        /\ out' = r.err
    /\ call' = [op |-> "deserialize", data |-> data, now |-> today]
    /\ ser' = <<>>
    /\ UNCHANGED today
    /\ UNCHANGED serviceVars

Serialize ==
    /\ call.op = "deserialize"
    /\ ser' = <<serialize(acct)>>
    /\ UNCHANGED <<acct, call, out, today>>
    /\ UNCHANGED serviceVars

EntityTick ==
    /\ today # DayAfter(MaxTicks)
    /\ today' = NextDay(today)
    /\ UNCHANGED entityVars
    /\ UNCHANGED serviceVars

NextEntity ==
    \/ New
    \/ \E data \in EntityBodies : Deserialize(data)
    \/ Serialize
    \/ EntityTick

SpecEntity == Init /\ [][NextEntity]_vars

----------------------------------------------------------------------------
(* Properties *)

\* the step handles a request with the verb (a step of Spec that leaves the
\* day alone is a request)
Handled(verb) == today' = today /\ req'.verb = verb

Has(body, key) == body.t = "obj" /\ key \in DOMAIN body.m

\* the key is in the body with a value other than JSON null
Supplied(body, key) == Has(body, key) /\ body.m[key] # Null

HasRequired(body) == \A i \in 1..3 : Has(body, <<"name", "email", "address">>[i])

AbsentRequired(body) == {k \in {"name", "email", "address"} : ~Has(body, k)}

\* a body the data model accepts: the three required strings, and a
\* date_joined that is left out or is an ISO-8601 date string
ValidBody(body) ==
    /\ \A k \in {"name", "email", "address"} :
          Supplied(body, k) /\ body.m[k].t = "str"
    /\ Has(body, "date_joined") =>
          body.m["date_joined"].t = "str" /\ IsIsoDate(body.m["date_joined"].v)

\* the document carries the body's name, email, address and phone_number,
\* and the body's date_joined when the body supplies one
SameAsBody(doc, body) ==
    /\ doc.name = body.m["name"]
    /\ doc.email = body.m["email"]
    /\ doc.address = body.m["address"]
    /\ doc.phone_number = Get(body.m, "phone_number")
    /\ Supplied(body, "date_joined") => doc.date_joined = body.m["date_joined"]

\* C1: for every payload with name, email and address, POST /accounts and
\* then GET /accounts/{returned id} return the payload's name, email,
\* address, phone_number and date_joined, and the returned id is one no
\* create has returned before, whatever id the payload carries.
C1_CreateThenRead ==
    [][ /\ (Handled("POST") /\ resp'.status = 201) =>
              /\ resp'.held.id \notin minted
              /\ resp'.held.id \in DOMAIN store' \ DOMAIN store
              /\ resp'.body[1].id = IdValue(resp'.held.id)
        /\ (req.verb = "POST" /\ resp.status = 201 /\ Handled("GET")
              /\ req'.id = resp.held.id) =>
              /\ resp'.status = 200
              /\ SameAsBody(resp'.body[1], req.body) ]_vars

\* C2: deserializing an object that lacks name, email or address raises
\* DataValidationError for a KeyError naming an absent key, never a
\* present one
C2_MissingField ==
    (call.op = "deserialize" /\ call.data.t = "obj"
        /\ AbsentRequired(call.data) # {}) =>
        /\ out.exc = "DataValidationError"
        /\ out.cause = "KeyError"
        /\ out.arg \in AbsentRequired(call.data)

C2_Witness ==
    /\ call.op = "deserialize"
    /\ AbsentRequired(call.data) = {"email", "address"}
    /\ Has(call.data, "date_joined")
    /\ out = DataValidationError("KeyError", "email")

\* date_joined is in the document with a value that is no ISO-8601 date
\* string: a malformed string or a value that is no string
MalformedDate(body) ==
    /\ Supplied(body, "date_joined")
    /\ ~(body.m["date_joined"].t = "str" /\ IsIsoDate(body.m["date_joined"].v))

\* C3: deserializing a document whose date_joined is present and is no
\* valid ISO-8601 date string raises DataValidationError: no other
\* exception, and no return with today's date
C3_MalformedDate ==
    (call.op = "deserialize" /\ HasRequired(call.data)
        /\ MalformedDate(call.data)) =>
        out.exc = "DataValidationError"

\* C4: POST /accounts with a content type other than application/json
\* answers 415, whatever the body
C4_UnsupportedMediaType ==
    (req.verb = "POST" /\ req.ctype # JSON) => resp.status = 415

C4_Witness ==
    /\ req.verb = "POST"
    /\ req.ctype = "text/plain"
    /\ req.body = NoEmailBody
    /\ resp.status = 415
    /\ DOMAIN store # {}

\* C5: PUT /accounts/{id} for an id that is not in the store answers 404,
\* valid body or not, and leaves the store as it was
C5_UpdateNotFound ==
    [][ (Handled("PUT") /\ req'.id \notin DOMAIN store) =>
            /\ resp'.status = 404
            /\ store' = store
            /\ seq' = seq ]_vars

C5_Witness ==
    /\ req.verb = "PUT"
    /\ req.id \notin DOMAIN store
    /\ req.id \in minted
    /\ req.body = NoEmailBody
    /\ resp.status = 404

C7_ListAll ==
    req.verb = "LIST" =>
        /\ resp.status = 200
        /\ Len(resp.body) = Cardinality(DOMAIN store)
        /\ {resp.body[i].id : i \in DOMAIN resp.body} =
              {IdValue(id) : id \in DOMAIN store}
        /\ \A i \in DOMAIN resp.body :
              /\ {"id", "name", "email", "address"} \subseteq DOMAIN resp.body[i]
              /\ \E id \in DOMAIN store : resp.body[i] = serialize(store[id])
        /\ minted = DOMAIN store => Len(resp.body) = Cardinality(minted)

C7_Witness ==
    /\ req.verb = "LIST"
    /\ resp.status = 200
    /\ Len(resp.body) = 2
    /\ minted = DOMAIN store

\* C8: for every document x with name, email and address that deserialize
\* accepts, serialize(deserialize(x)) has x's name, email, address and
\* phone_number (null when x has none), x's date_joined when x supplies
\* one, and the date of the call when it does not
C8_RoundTrip ==
    (call.op = "deserialize" /\ HasRequired(call.data) /\ out = NoError
        /\ ser # <<>>) =>
        /\ SameAsBody(ser[1], call.data)
        /\ ~Supplied(call.data, "date_joined") =>
              ser[1].date_joined = Str(isoformat(call.now))

\* C9: PUT /accounts/{id} on an account in the store with a valid body
\* answers 200 with the body's values and the same id, changes no other
\* account, and a GET of the id that follows returns the body's values
C9_UpdateInPlace ==
    [][ /\ (Handled("PUT") /\ req'.id \in DOMAIN store /\ ValidBody(req'.body)) =>
              /\ resp'.status = 200
              /\ SameAsBody(resp'.body[1], req'.body)
              /\ ~Has(req'.body, "date_joined") =>
                    resp'.body[1].date_joined = Str(isoformat(today))
              /\ resp'.body[1].id = IdValue(req'.id)
              /\ DOMAIN store' = DOMAIN store
              /\ store'[req'.id].id = req'.id
              /\ \A j \in DOMAIN store \ {req'.id} : store'[j] = store[j]
        /\ (req.verb = "PUT" /\ resp.status = 200 /\ ValidBody(req.body)
              /\ Handled("GET") /\ req'.id = req.id) =>
              /\ resp'.status = 200
              /\ resp'.body = resp.body
              /\ SameAsBody(resp'.body[1], req.body) ]_vars

C9_Witness ==
    /\ req.verb = "PUT"
    /\ resp.status = 200
    /\ req.body = FullBody
    /\ Cardinality(DOMAIN store) = 2
    /\ store[req.id].name = NameA
    /\ \E j \in DOMAIN store : store[j].name = NameB

\* C10: a request answered 400 leaves the store as it was; a PUT on an
\* account in the store whose body lacks a required key is answered 400
\* and commits none of the fields deserialize had assigned, so a GET of
\* the account that follows returns the stored values
C10_RejectedLeavesStore ==
    [][ /\ (today' = today /\ req'.verb # "none" /\ resp'.status = 400) =>
              (store' = store /\ seq' = seq)
        /\ (Handled("PUT") /\ req'.id \in DOMAIN store
              /\ AbsentRequired(req'.body) # {}) =>
              (resp'.status = 400 /\ store' = store)
        /\ (req.verb = "PUT" /\ resp.status = 400 /\ Handled("GET")
              /\ req'.id = req.id) =>
              resp'.body = <<serialize(store[req.id])>> ]_vars

C10_Witness ==
    /\ req.verb = "PUT"
    /\ resp.status = 400
    /\ req.body = NoEmailBody
    /\ req.id \in DOMAIN store
    /\ resp.held.name = NameB
    /\ store[req.id].name = NameA

====
